---- MODULE Spec2Model ----
(***************************************************************************)
(* Work Time Tracker (app/main.py, app/models.py, app/db.py).              *)
(*                                                                         *)
(* State: the two tables (categories, sessions), the wall clock read by    *)
(* datetime.utcnow(), the response of the latest request and its body      *)
(* (the home page, the categories page, the CSV export), and each          *)
(* request's position inside its handler: requests run in the threads of   *)
(* a pool, a handler's statements are separate steps. The database is the  *)
(* default one, SQLite (db.py: no DATABASE_URL). A reading of the clock is *)
(* never earlier than the one before it; it may be the same.               *)
(*                                                                         *)
(* Time is counted in clock ticks; SubPerSec ticks make one second, so a   *)
(* tick that is no multiple of SubPerSec carries a fractional-second part. *)
(* A timestamp string is a record [kind, wall]: wall is the date and time  *)
(* written in the string (in ticks), kind is what follows it:              *)
(*   "naive"  nothing            2026-01-27T15:53:55                       *)
(*   "Z"      a literal Z        2026-01-27T15:53:55Z                      *)
(*   "offset" the offset +00:01  2026-01-27T15:53:55+00:01                 *)
(*   "bad"    not ISO-8601       (isoparse raises ValueError)              *)
(*   "empty"  the empty string   (falsy in Python)                         *)
(*   "None"   no value           (Form(None), column NULL)                 *)
(***************************************************************************)
EXTENDS Integers, Sequences, FiniteSets, TLC

VARIABLES
    categories,   \* table categories: id -> row
    sessions,     \* table sessions:   id -> row
    clock,        \* the latest reading of datetime.utcnow(), in ticks
    last,         \* the response to the latest request
    req,          \* per thread: the request it serves and its position
    page          \* the body of the latest response, when it has one

vars == <<categories, sessions, clock, last, req, page>>

\* ------------------------------------------------------------------ bounds
MaxTime == 2        \* clock readings are 0..MaxTime
MaxId == 2          \* session ids are 1..MaxId
SubPerSec == 2      \* clock ticks per second
MaxAdded == 2       \* categories added to the seeded ones
MaxSeedTime == 1    \* the clock readings of init_db are 0..MaxSeedTime

Procs == {1, 2}     \* concurrent requests

\* ------------------------------------------------------ values and inputs
None == -1                                   \* Optional[int] = None
NoneStr == [kind |-> "None", wall |-> 0]     \* Optional[str] = None
EmptyStr == [kind |-> "empty", wall |-> 0]   \* ""
BadStr == [kind |-> "bad", wall |-> 0]       \* "not-a-timestamp"

Stamp(k, w) == [kind |-> k, wall |-> w]

\* The UTC offset of a string that ends in +00:01, in ticks: isoparse takes
\* offsets of whole minutes only.
utcoffset == 60 * SubPerSec

CategoryInputs == {None, 0, 1, 6}
Descriptions == {"", "d"}
SessionIds == 1..MaxId

\* The requests that run beside other requests: edit requests for session 1
\* that submit one fixed start, no category, and an end that is absent or
\* not after the start.
ConcurrentSessionIds == {1}

ConcurrentEditInputs ==
    {<<None, "", Stamp("Z", 0), e>> : e \in {NoneStr, Stamp("Z", 0)}}

\* The edit requests: every pair of timestamps with the form's other fields
\* left at their defaults, and every category and description with one
\* fixed start and an end that is absent or one second later. A submitted
\* start_utc is second 0 with and without Z, second 1 with Z, second 1 and
\* second 60 as times at +00:01 (the instants of second -59 and second 0),
\* a whole second later than every clock reading, or a string that is no
\* timestamp. A submitted end_utc is absent, empty, no timestamp, second 1
\* without Z, second 1 and second 61 as times at +00:01, or any tick from
\* second 0 to second 1 with Z.
EditInputs ==
    {<<None, "", s, e>> :
        s \in {Stamp("Z", 0), Stamp("Z", SubPerSec), Stamp("naive", 0),
               Stamp("offset", SubPerSec), Stamp("offset", utcoffset),
               Stamp("Z", SubPerSec * (MaxTime \div SubPerSec + 1)), BadStr},
        e \in {NoneStr, EmptyStr, BadStr, Stamp("naive", SubPerSec),
               Stamp("offset", SubPerSec),
               Stamp("offset", utcoffset + SubPerSec)}
              \cup {Stamp("Z", w) : w \in 0..SubPerSec}}
    \cup {<<c, d, Stamp("Z", 0), e>> :
            c \in CategoryInputs, d \in Descriptions,
            e \in {NoneStr, Stamp("Z", SubPerSec)}}

\* ------------------------------------------------------------ timestamps
\* date_parser.isoparse: a datetime (wall time, and a UTC offset when the
\* string carries Z or an offset), or ValueError (ok = FALSE).
isoparse(s) ==
    CASE s.kind = "naive" ->
            [ok |-> TRUE, aware |-> FALSE, wall |-> s.wall, off |-> 0]
      [] s.kind = "Z" ->
            [ok |-> TRUE, aware |-> TRUE, wall |-> s.wall, off |-> 0]
      [] s.kind = "offset" ->
            [ok |-> TRUE, aware |-> TRUE, wall |-> s.wall,
             off |-> utcoffset]
      [] OTHER ->
            [ok |-> FALSE, aware |-> FALSE, wall |-> 0, off |-> 0]

\* Python compares two aware datetimes as instants and two naive ones by
\* wall time; comparing a naive with an aware one raises TypeError.
Comparable(a, b) == a.aware = b.aware

\* dt_le with < for <=.
dt_lt(a, b) ==
    IF a.aware THEN a.wall - a.off < b.wall - b.off ELSE a.wall < b.wall

dt_le(a, b) ==
    IF a.aware THEN a.wall - a.off <= b.wall - b.off ELSE a.wall <= b.wall

\* dt.replace(tzinfo=None, microsecond=0).isoformat() + "Z"
Normalize(dt) == Stamp("Z", (dt.wall \div SubPerSec) * SubPerSec)

\* datetime.utcnow().isoformat() + "Z", for the clock reading t
utcnow_iso(t) == Stamp("Z", t)

\* Python truthiness of an Optional[str] / Optional[int] form value
TruthyStr(s) == s.kind \notin {"None", "empty"}
TruthyInt(n) == n # None /\ n # 0

\* ---------------------------------------------------------------- queries
Max(S) == CHOOSE m \in S : \A x \in S : x <= m

\* The first element of a set of ids in the order of the ids, as a set of
\* at most one id.
First(S) == {i \in S : \A j \in S : i <= j}

\* get_active_session with the filter inverted (end_utc IS NOT NULL).
get_active_session_closed(ss) ==
    First({i \in DOMAIN ss : ss[i].end_utc # NoneStr})

\* WHERE end_utc IS NULL ... LIMIT 1: SQLite searches idx_end_utc_is_null,
\* where the entries of equal end_utc come in the order of their ids, so
\* .first() returns the running row with the lowest id; {} is None.
get_active_session(ss) == First({i \in DOMAIN ss : ss[i].end_utc = NoneStr})

\* The active category with this id, as a set of at most one id.
get_category_by_id(cs, category_id) ==
    {c \in DOMAIN cs : c = category_id /\ cs[c].is_active = 1}

\* The primary key SQLite gives the next sessions row: an INTEGER PRIMARY
\* KEY column without AUTOINCREMENT takes max(rowid) + 1, and 1 in an empty
\* table.
next_id(ss) == IF DOMAIN ss = {} THEN 1 ELSE Max(DOMAIN ss) + 1

\* -------------------------------------------------------------- responses
Response(op, status, detail) ==
    [op |-> op, status |-> status, detail |-> detail]

RedirectResponse(op) == Response(op, 303, "")

\* What a request leaves behind: its response, the sessions table after it,
\* and whether it read the clock. A request that raises HTTPException
\* commits nothing.
Raised(r, ss) == [response |-> r, sessions |-> ss, read |-> FALSE]

Committed(op, ss, read) ==
    [response |-> RedirectResponse(op), sessions |-> ss, read |-> read]

\* ---------------------------------------------------------- start_session
AlreadyRunning ==
    Response("start", 400, "A session is already running. Stop it first.")

StartCategoryNotFound ==
    Response("start", 404, "Category not found or inactive.")

\* Lines 135-144: the response that rejects the request, or {} to go on,
\* when nothing is written between the two SELECTs.
start_check(ss, cs, category_id) ==
    IF get_active_session(ss) # {} THEN {AlreadyRunning}
    ELSE IF TruthyInt(category_id) /\ get_category_by_id(cs, category_id) = {}
         THEN {StartCategoryNotFound}
         ELSE {}

\* NewSession with end_utc stamped like the other timestamps.
NewSession_ended(category_id, description, t) ==
    [category_id |-> category_id,
     description |-> description,
     start_utc |-> utcnow_iso(t),
     end_utc |-> utcnow_iso(t),
     created_utc |-> utcnow_iso(t),
     updated_utc |-> utcnow_iso(t)]

\* Lines 146-154: the row start_session builds at clock reading t.
NewSession(category_id, description, t) ==
    [category_id |-> category_id,
     description |-> description,
     start_utc |-> utcnow_iso(t),
     end_utc |-> NoneStr,
     created_utc |-> utcnow_iso(t),
     updated_utc |-> utcnow_iso(t)]

\* Lines 155-156: db.add, db.commit.
Insert(ss, row) ==
    [i \in DOMAIN ss \cup {next_id(ss)} |->
        IF i = next_id(ss) THEN row ELSE ss[i]]

\* POST /start with the clock reading t, served with no write of another
\* request between its statements.
start_session(ss, cs, category_id, description, t) ==
    LET rejected == start_check(ss, cs, category_id) IN
    IF rejected # {}
    THEN {Raised(r, ss) : r \in rejected}
    ELSE {Committed("start",
                    Insert(ss, NewSession(category_id, description, t)),
                    TRUE)}

\* ----------------------------------------------------------- stop_session
\* NoActiveSession reported as "not found".
NoActiveSession_404 == Response("stop", 404, "No active session to stop.")

NoActiveSession == Response("stop", 400, "No active session to stop.")

\* Stopped without the refresh of updated_utc.
Stopped_stale(row, t) == [row EXCEPT !.end_utc = utcnow_iso(t)]

\* Lines 169-171: the running row with end_utc and updated_utc set to now.
Stopped(row, t) ==
    [row EXCEPT !.end_utc = utcnow_iso(t), !.updated_utc = utcnow_iso(t)]

\* POST /stop with the clock reading t, served with no write of another
\* request between its statements.
stop_session(ss, t) ==
    LET active == get_active_session(ss) IN
    IF active = {}
    THEN {Raised(NoActiveSession, ss)}
    ELSE {Committed("stop", [ss EXCEPT ![a] = Stopped(@, t)], TRUE) :
            a \in active}

\* ----------------------------------------------------------- edit_session
SessionNotFound(op) == Response(op, 404, "Session not found.")

\* Lines 240-242: the detail ends with str(e) of what the try block raised.
\* isoparse raises ValueError for "not-a-timestamp"; the comparison of a
\* naive datetime with an aware one raises TypeError.
ValueErrorText == "invalid literal for int() with base 10: b'not-'"

InvalidDatetime(e) ==
    Response("edit", 400, "Invalid datetime format: " \o e)

EndNotAfterStart ==
    Response("edit", 400, "End time must be after start time.")

EditCategoryNotFound ==
    Response("edit", 404, "Category not found or inactive.")

\* Lines 210-242: the response that rejects the two timestamps, or {}.
\* ValueError (isoparse) and TypeError (comparing a naive datetime with an
\* aware one) both leave through "except Exception".
validate_times(start_utc, end_utc) ==
    LET start_dt == isoparse(start_utc)
        end_dt == isoparse(end_utc)
    IN  IF ~start_dt.ok THEN {InvalidDatetime(ValueErrorText)}
        ELSE IF ~TruthyStr(end_utc) THEN {}
        ELSE IF ~end_dt.ok THEN {InvalidDatetime(ValueErrorText)}
        ELSE IF ~Comparable(end_dt, start_dt)
             THEN {InvalidDatetime("can't compare offset-naive and "
                                   \o "offset-aware datetimes")}
        ELSE IF dt_le(end_dt, start_dt) THEN {EndNotAfterStart}
        ELSE {}

\* edit_check_times with a conflict when the edit leaves the session
\* running while another session runs.
edit_check_times_exclusive(ss, session_id, start_utc, end_utc) ==
    IF session_id \notin DOMAIN ss THEN {SessionNotFound("edit")}
    ELSE IF validate_times(start_utc, end_utc) # {}
         THEN validate_times(start_utc, end_utc)
    ELSE IF ~TruthyStr(end_utc)
                /\ {i \in DOMAIN ss : ss[i].end_utc = NoneStr} \ {session_id}
                        # {}
         THEN {AlreadyRunning}
         ELSE {}

\* Lines 194-242: the response that rejects the request after the SELECT of
\* the session and the checks of the times, or {} to go on.
edit_check_times(ss, session_id, start_utc, end_utc) ==
    IF session_id \notin DOMAIN ss THEN {SessionNotFound("edit")}
    ELSE validate_times(start_utc, end_utc)

\* Lines 194-261: the response that rejects the request, or {} to go on,
\* when nothing is written between the two SELECTs.
edit_check(ss, cs, session_id, category_id, start_utc, end_utc) ==
    IF edit_check_times(ss, session_id, start_utc, end_utc) # {}
    THEN edit_check_times(ss, session_id, start_utc, end_utc)
    ELSE IF TruthyInt(category_id) /\ get_category_by_id(cs, category_id) = {}
         THEN {EditCategoryNotFound}
         ELSE {}

\* Lines 216-217, 231-235: what is stored for the submitted timestamps.
start_utc_normalized(start_utc) == Normalize(isoparse(start_utc))

end_utc_normalized(end_utc) ==
    IF TruthyStr(end_utc) THEN Normalize(isoparse(end_utc)) ELSE NoneStr

\* Edited without the assignment of category_id.
Edited_keeps_category(row, category_id, description, start_utc, end_utc, t) ==
    [row EXCEPT !.description = description,
                !.start_utc = start_utc_normalized(start_utc),
                !.end_utc = end_utc_normalized(end_utc),
                !.updated_utc = utcnow_iso(t)]

\* Lines 263-280: the row after the update, at clock reading t.
Edited(row, category_id, description, start_utc, end_utc, t) ==
    [row EXCEPT !.category_id = category_id,
                !.description = description,
                !.start_utc = start_utc_normalized(start_utc),
                !.end_utc = end_utc_normalized(end_utc),
                !.updated_utc = utcnow_iso(t)]

\* POST /sessions/{session_id}/edit with the clock reading t, served with
\* no write of another request between its statements.
edit_session(ss, cs, session_id, category_id, description, start_utc, end_utc, t) ==
    LET rejected == edit_check(ss, cs, session_id, category_id, start_utc,
                               end_utc)
    IN  IF rejected # {}
        THEN {Raised(r, ss) : r \in rejected}
        ELSE {Committed("edit",
                        [ss EXCEPT ![session_id] =
                            Edited(@, category_id, description, start_utc,
                                   end_utc, t)],
                        TRUE)}

\* --------------------------------------------------------- delete_session
CannotDeleteActive ==
    Response("delete", 400,
             "Cannot delete the active session. Stop it first.")

\* Line 311
is_active_session(row) == row.end_utc = NoneStr

\* Lines 314-315, the flush of a deleted row: DELETE FROM sessions WHERE id
\* = session_id. A DELETE that matches no row raises nothing (a warning).
DeleteRow(ss, session_id) == [i \in DOMAIN ss \ {session_id} |-> ss[i]]

\* POST /sessions/{session_id}/delete, served with no write of another
\* request between its statements.
delete_session(ss, session_id) ==
    IF session_id \notin DOMAIN ss
    THEN {Raised(SessionNotFound("delete"), ss)}
    ELSE IF is_active_session(ss[session_id])
    THEN {Raised(CannotDeleteActive, ss)}
    ELSE {Committed("delete", DeleteRow(ss, session_id), FALSE)}

\* ---------------------------------------------------------- category names
\* A str that holds a name is the sequence of its pieces: a word, or one
\* whitespace character.
Whitespace == {" ", "\t"}

NameInputs ==
    {<<"Coding">>, <<" ", "Meetings", "\t">>, <<"Deep">>, <<" ", "Deep">>,
     <<"Focus">>, <<>>, <<" ">>}

CategoryIdInputs == {1, 6, 7}

\* The category requests that run beside other requests: two new names, one
\* with whitespace before it, the empty name and a name of whitespace only,
\* for a seeded category.
ConcurrentNameInputs == {<<"Deep">>, <<" ", "Focus">>, <<>>, <<" ">>}

ConcurrentCategoryIdInputs == {1}

RECURSIVE strip(_)

\* str.strip() that removes nothing.
strip_nothing(name) == name

\* str.strip(): the leading and the trailing whitespace removed.
strip(name) ==
    IF name = <<>> THEN name
    ELSE IF Head(name) \in Whitespace THEN strip(Tail(name))
    ELSE IF name[Len(name)] \in Whitespace
         THEN strip(SubSeq(name, 1, Len(name) - 1))
         ELSE name

\* ----------------------------------------------------------- add_category
RaisedCategory(r, cs) == [response |-> r, categories |-> cs, read |-> FALSE]

CommittedCategory(op, cs, read) ==
    [response |-> RedirectResponse(op), categories |-> cs, read |-> read]

CategoryNameEmpty(op) == Response(op, 400, "Category name cannot be empty.")

CategoryExists == Response("add_category", 400, "Category already exists.")

\* Line 328: the categories with this name, active or not.
existing_name(cs, name) == {c \in DOMAIN cs : cs[c].name = name}

\* next_sort from the active categories only.
next_sort_active(cs) ==
    IF {c \in DOMAIN cs : cs[c].is_active = 1} = {} THEN 10
    ELSE Max({cs[c].sort_order :
                c \in {d \in DOMAIN cs : cs[d].is_active = 1}}) + 10

\* Lines 332-333: the greatest sort_order of the table plus 10, or 10 when
\* the table has no row.
next_sort(cs) ==
    IF DOMAIN cs = {} THEN 10
    ELSE Max({cs[c].sort_order : c \in DOMAIN cs}) + 10

\* Lines 335-339; is_active takes the column default 1.
NewCategory(name, sort_order, t) ==
    [name |-> name, is_active |-> 1, sort_order |-> sort_order,
     created_utc |-> utcnow_iso(t)]

\* POST /categories/add with the clock reading t, served with no write of
\* another request between its statements.
add_category(cs, name, t) ==
    IF strip(name) = <<>>
    THEN {RaisedCategory(CategoryNameEmpty("add_category"), cs)}
    ELSE IF existing_name(cs, strip(name)) # {}
         THEN {RaisedCategory(CategoryExists, cs)}
         ELSE {CommittedCategory("add_category",
                    Insert(cs, NewCategory(strip(name), next_sort(cs), t)),
                    TRUE)}

\* ---------------------------------------------------------- edit_category
CategoryNotFound(op) == Response(op, 404, "Category not found.")

CategoryNameExists ==
    Response("edit_category", 400, "Category name already exists.")

\* The name check that counts the edited category itself.
existing_other_or_self(cs, name, category_id) ==
    {c \in DOMAIN cs : cs[c].name = name}

\* Lines 364-367: the categories with this name and another id.
existing_other(cs, name, category_id) ==
    {c \in DOMAIN cs : cs[c].name = name /\ c # category_id}

\* Line 371
Renamed(row, name) == [row EXCEPT !.name = name]

\* POST /categories/{category_id}/edit, served with no write of another
\* request between its statements.
edit_category(cs, category_id, name) ==
    IF category_id \notin DOMAIN cs
    THEN {RaisedCategory(CategoryNotFound("edit_category"), cs)}
    ELSE IF strip(name) = <<>>
         THEN {RaisedCategory(CategoryNameEmpty("edit_category"), cs)}
    ELSE IF existing_other(cs, strip(name), category_id) # {}
         THEN {RaisedCategory(CategoryNameExists, cs)}
         ELSE {CommittedCategory("edit_category",
                    [cs EXCEPT ![category_id] = Renamed(@, strip(name))],
                    FALSE)}

\* -------------------------------------------------------- delete_category
\* Deactivated that flips is_active.
Deactivated_toggle(row) == [row EXCEPT !.is_active = 1 - @]

\* Line 384: the soft delete.
Deactivated(row) == [row EXCEPT !.is_active = 0]

\* POST /categories/{category_id}/delete, served with no write of another
\* request between its statements.
delete_category(cs, category_id) ==
    IF category_id \notin DOMAIN cs
    THEN {RaisedCategory(CategoryNotFound("delete_category"), cs)}
    ELSE {CommittedCategory("delete_category",
               [cs EXCEPT ![category_id] = Deactivated(@)], FALSE)}

\* ------------------------------------------------------- format_time_diff
\* A str that holds a duration is the sequence of its characters.
Digit == <<"0", "1", "2", "3", "4", "5", "6", "7", "8", "9">>

\* str(n) of an int n >= 0
RECURSIVE str_int(_)
str_int(n) ==
    IF n < 10 THEN <<Digit[n + 1]>>
    ELSE Append(str_int(n \div 10), Digit[(n % 10) + 1])

\* f"{n:02d}": padded with zeros to two characters, the sign counted.
format_02d(n) ==
    IF n < 0 THEN <<"-">> \o str_int(-n)
    ELSE IF n < 10 THEN <<"0">> \o str_int(n)
    ELSE str_int(n)

\* int(delta.total_seconds()) of a timedelta of d ticks: int() drops the
\* fraction, towards zero.
int_total_seconds(d) ==
    IF d >= 0 THEN d \div SubPerSec ELSE -((-d) \div SubPerSec)

\* Lines 60-64: // and % round towards minus infinity, as \div and % do.
format_delta(d) ==
    format_02d(int_total_seconds(d) \div 3600) \o <<":">>
    \o format_02d((int_total_seconds(d) % 3600) \div 60) \o <<":">>
    \o format_02d(int_total_seconds(d) % 60)

\* format_time_diff(start_iso, end_iso) with the clock reading t, which
\* datetime.utcnow() gives as a naive datetime. end - start of a naive and an
\* aware datetime raises TypeError, which line 65 catches together with the
\* ValueError of isoparse, and line 66 returns "00:00:00".
format_time_diff(start_iso, end_iso, t) ==
    LET start == isoparse(start_iso)
        end == IF TruthyStr(end_iso) THEN isoparse(end_iso)
               ELSE [ok |-> TRUE, aware |-> FALSE, wall |-> t, off |-> 0]
    IN  IF ~start.ok \/ ~end.ok \/ start.aware # end.aware
        THEN <<"0", "0", ":", "0", "0", ":", "0", "0">>
        ELSE format_delta((end.wall - end.off) - (start.wall - start.off))

\* ------------------------------------------------------------------ pages
NoCategory == <<"(No Category)">>

NoDuration == <<"None">>

\* Lines 97 and 101, 401 and 405: the name shown for a session's category.
category_name(cs, category_id) ==
    IF TruthyInt(category_id) /\ get_category_by_id(cs, category_id) # {}
    THEN cs[category_id].name
    ELSE NoCategory

\* The place of a stored timestamp string among the strings of its second:
\* isoformat() writes no fraction when there is none, "." sorts before "Z",
\* so a string with a fraction sorts before the one without.
str_key(s) ==
    (s.wall \div SubPerSec) * SubPerSec
    + (((s.wall % SubPerSec) - 1) % SubPerSec)

\* ORDER BY key DESC over the rows S, as SQLite answers it from an index on
\* the key: it walks the index backwards, and the entries of equal keys are
\* in the order of their ids, so rows with equal keys come with the greater
\* id first.
RECURSIVE order_by_desc(_, _)
order_by_desc(S, key) ==
    IF S = {} THEN <<>>
    ELSE LET m == CHOOSE i \in S :
                    \A j \in S : key[j] < key[i] \/ (key[j] = key[i] /\ j <= i)
         IN  <<m>> \o order_by_desc(S \ {m}, key)

\* ORDER BY key over the rows S, as SQLite answers it without an index on
\* the key: it sorts the rows it reads in the order of their ids, and rows
\* with equal keys stay in that order.
RECURSIVE order_by(_, _)
order_by(S, key) ==
    IF S = {} THEN <<>>
    ELSE LET m == CHOOSE i \in S :
                    \A j \in S : key[i] < key[j] \/ (key[j] = key[i] /\ i <= j)
         IN  <<m>> \o order_by(S \ {m}, key)

\* Line 87 and line 394: all sessions, most recent start_utc first
\* (ix_sessions_start_utc).
sessions_by_start(ss) ==
    order_by_desc(DOMAIN ss, [i \in DOMAIN ss |-> str_key(ss[i].start_utc)])

\* Line 90: the ids of the active categories, ordered by sort_order.
list_active(cs) ==
    order_by({c \in DOMAIN cs : cs[c].is_active = 1},
             [c \in DOMAIN cs |-> cs[c].sort_order])

\* Lines 96-106: the row of one session on the home page, from the loaded
\* row and the name found for its category.
session_row(i, row, name) ==
    [id |-> i,
     category_name |-> name,
     category_id |-> row.category_id,
     description |-> row.description,
     start_utc |-> row.start_utc,
     end_utc |-> row.end_utc,
     duration |-> IF TruthyStr(row.end_utc)
                  THEN format_time_diff(row.start_utc, row.end_utc, 0)
                  ELSE NoDuration,
     is_running |-> row.end_utc = NoneStr]

\* Lines 94-106: the row of the session i on a page served with no write of
\* another request between its statements.
sessions_data(ss, cs, i) ==
    session_row(i, ss[i], category_name(cs, ss[i].category_id))

\* GET /categories: all categories, ordered by sort_order.
categories_page(cs) ==
    order_by(DOMAIN cs, [c \in DOMAIN cs |-> cs[c].sort_order])

\* Lines 402-410: the row of one session in the CSV, from the loaded row
\* and the name found for its category.
export_line(i, row, name) ==
    <<i, name, row.description, row.start_utc,
      IF TruthyStr(row.end_utc) THEN row.end_utc ELSE EmptyStr,
      IF TruthyStr(row.end_utc)
      THEN format_time_diff(row.start_utc, row.end_utc, 0)
      ELSE <<>> >>

\* Lines 400-410: the row of the session i in a CSV served with no write of
\* another request between its statements.
export_row(ss, cs, i) ==
    export_line(i, ss[i], category_name(cs, ss[i].category_id))

\* ------------------------------------------------------------------- Init
NoPage == <<>>

SeedNames == <<"Coding", "Meetings", "Support", "Planning", "Admin">>

\* db.py 61-67: the loop reads the clock once for each seeded category
\* (line 65), so a row's created_utc is never earlier than that of the row
\* before it.
SeedReadings ==
    {r \in [1..Len(SeedNames) -> 0..MaxSeedTime] :
        \A c \in 1..(Len(SeedNames) - 1) : r[c] <= r[c + 1]}

\* The seeded table, the clock reading r[c] at the row c.
init_db(r) ==
    [c \in 1..Len(SeedNames) |->
        [name |-> <<SeedNames[c]>>, is_active |-> 1, sort_order |-> 10 * c,
         created_utc |-> utcnow_iso(r[c])]]

EmptyTable == [i \in {} |-> NoneStr]

\* No row loaded.
NoRow ==
    [category_id |-> None, description |-> "", start_utc |-> NoneStr,
     end_utc |-> NoneStr, created_utc |-> NoneStr, updated_utc |-> NoneStr]

\* What a request for a page has loaded so far: the running session of line
\* 84 (its id, and the row as it was loaded), the active categories of line
\* 90, the session rows of its query, the Category objects its database
\* session holds (the list of line 90) and the one its variable "cat"
\* holds, the names found for the rows, and the row whose category it looks
\* up next.
NoBody ==
    [active |-> {}, seen |-> EmptyTable, listed |-> <<>>, rows |-> <<>>,
     cats |-> EmptyTable, kept |-> EmptyTable, names |-> <<>>, k |-> 0]

\* A thread of the pool that serves no request.
Idle ==
    [pc |-> "idle", op |-> "", id |-> None, category_id |-> None,
     description |-> "", start_utc |-> NoneStr, end_utc |-> NoneStr,
     name |-> <<>>, sort_order |-> 0, row |-> NoRow, now |-> 0,
     body |-> NoBody]

\* The state after startup: init_db has seeded the categories, the clock
\* shows the last reading init_db took.
Init ==
    \E r \in SeedReadings :
        /\ categories = init_db(r)
        /\ sessions = EmptyTable
        /\ clock = r[Len(SeedNames)]
        /\ last = Response("init", 0, "")
        /\ req = [p \in Procs |-> Idle]
        /\ page = NoPage

\* ---------------------------------------------------------------- threads
\* Requests run in the threads of a pool, each with its own database
\* session, and nothing is locked between the statements of a handler. A
\* step is one statement that reaches the database or the clock (a SELECT, a
\* reading of the clock, a commit) with the code that follows it up to the
\* next such statement; the code before a handler's first statement belongs
\* to its first step.

\* datetime.utcnow(): the readings a request may get, the latest one again
\* or any later one. Readings stop at MaxTime.
utcnow == clock..MaxTime

\* The pool gives a new request to an idle thread: the first one.
Free(p) ==
    /\ req[p].pc = "idle"
    /\ \A q \in Procs : q < p => req[q].pc # "idle"

\* The thread p serves a request of the handler op and has reached pc.
At(p, op, pc) == req[p].op = op /\ req[p].pc = pc

\* No request is in progress.
Quiet == \A p \in Procs : req[p].pc = "idle"

\* The request answers without a write.
Answer(p, r) ==
    /\ last' = r
    /\ req' = [req EXCEPT ![p] = Idle]
    /\ page' = NoPage
    /\ UNCHANGED <<categories, sessions, clock>>

\* The request goes on to its next statement.
GoOn(p, r) ==
    /\ req' = [req EXCEPT ![p] = r]
    /\ UNCHANGED <<categories, sessions, clock, last, page>>

\* now = datetime.utcnow().isoformat() + "Z" in the handler op.
ReadClock(p, op, next, t) ==
    /\ At(p, op, "clock")
    /\ req' = [req EXCEPT ![p].pc = next, ![p].now = t]
    /\ clock' = t
    /\ UNCHANGED <<categories, sessions, last, page>>

\* db.commit() of the handler op: the sessions table after it and the
\* response. Session ids stop at MaxId.
Commit(p, op, ss, r) ==
    /\ At(p, op, "commit")
    /\ DOMAIN ss \subseteq SessionIds
    /\ sessions' = ss
    /\ last' = r
    /\ req' = [req EXCEPT ![p] = Idle]
    /\ page' = NoPage
    /\ UNCHANGED <<categories, clock>>

\* What a handler keeps of the row it loaded: the values of the columns it
\* assigns later.
Loaded(row, columns) ==
    [f \in DOMAIN row |-> IF f \in columns THEN row[f] ELSE NoRow[f]]

\* The columns the unit of work finds changed on a loaded row.
Dirty(loaded, row) == {f \in DOMAIN row : row[f] # loaded[f]}

\* The flush of a changed row: UPDATE ... SET the changed columns WHERE id =
\* session_id. No statement is sent when no column changed.
Update(ss, session_id, loaded, row) ==
    IF session_id \notin DOMAIN ss THEN ss
    ELSE [ss EXCEPT ![session_id] =
            [f \in DOMAIN row |->
                IF f \in Dirty(loaded, row) THEN row[f] ELSE @[f]]]

\* The UPDATE matches no row: the flush raises StaleDataError.
Stale(ss, session_id, loaded, row) ==
    Dirty(loaded, row) # {} /\ session_id \notin DOMAIN ss

\* An exception no handler catches.
InternalServerError(op) == Response(op, 500, "Internal Server Error")

\* ------------------------------------------------- start_session, by steps
\* Lines 135-141: the SELECT of the running session.
StartSelect(p, category_id, description) ==
    /\ Free(p)
    /\ IF get_active_session(sessions) # {} THEN Answer(p, AlreadyRunning)
       ELSE GoOn(p, [Idle EXCEPT
                        !.op = "start",
                        !.pc = IF TruthyInt(category_id) THEN "category"
                               ELSE "clock",
                        !.category_id = category_id,
                        !.description = description])

\* A start request without category and without description.
StartRead == \E p \in Procs : \E c \in {None} : StartSelect(p, c, "")

\* A start request with category_id 0.
StartReadZero == \E p \in Procs : \E c \in {0} : StartSelect(p, c, "")

\* A start request with the category 1 and a description.
StartReadOne == \E p \in Procs : \E c \in {1} : StartSelect(p, c, "d")

\* A start request with a category that does not exist.
StartReadAbsent == \E p \in Procs : \E c \in {6} : StartSelect(p, c, "")

\* Lines 142-144: the SELECT of the category.
StartCheckCategory ==
    \E p \in Procs :
        /\ At(p, "start", "category")
        /\ IF get_category_by_id(categories, req[p].category_id) = {}
           THEN Answer(p, StartCategoryNotFound)
           ELSE GoOn(p, [req[p] EXCEPT !.pc = "clock"])

\* Line 146.
StartNow == \E p \in Procs, t \in utcnow : ReadClock(p, "start", "commit", t)

\* Lines 147-159.
StartCommit ==
    \E p \in Procs :
        \E row \in {NewSession(req[p].category_id, req[p].description,
                               req[p].now)} :
            Commit(p, "start", Insert(sessions, row),
                   RedirectResponse("start"))

\* -------------------------------------------------- stop_session, by steps
\* Lines 165-167.
StopRead ==
    \E p \in Procs :
        /\ Free(p)
        /\ IF get_active_session(sessions) = {}
           THEN Answer(p, NoActiveSession)
           ELSE \E a \in get_active_session(sessions) :
                    GoOn(p, [Idle EXCEPT
                                !.op = "stop", !.pc = "clock", !.id = a,
                                !.row = Loaded(sessions[a],
                                               {"end_utc", "updated_utc"})])

\* Line 169.
StopNow == \E p \in Procs, t \in utcnow : ReadClock(p, "stop", "commit", t)

\* Lines 170-174.
StopCommit ==
    \E p \in Procs :
        LET row == Stopped(req[p].row, req[p].now) IN
        IF Stale(sessions, req[p].id, req[p].row, row)
        THEN Commit(p, "stop", sessions, InternalServerError("stop"))
        ELSE Commit(p, "stop", Update(sessions, req[p].id, req[p].row, row),
                    RedirectResponse("stop"))

\* -------------------------------------------------- edit_session, by steps
\* Lines 194-246: the SELECT of the session and the checks of the times.
EditSelect(p, session_id, f) ==
    /\ Free(p)
    /\ LET rejected == edit_check_times(sessions, session_id, f[3], f[4])
       IN  IF rejected # {} THEN \E r \in rejected : Answer(p, r)
           ELSE GoOn(p, [Idle EXCEPT
                    !.op = "edit",
                    !.pc = IF TruthyInt(f[1]) THEN "category" ELSE "clock",
                    !.id = session_id, !.category_id = f[1],
                    !.description = f[2], !.start_utc = f[3],
                    !.end_utc = f[4],
                    !.row = Loaded(sessions[session_id],
                                   DOMAIN NoRow \ {"created_utc"})])

\* Edit requests for session 1 that submit one fixed start, no category,
\* and an end that is absent or equal to the start.
EditRead ==
    \E p \in Procs, i \in ConcurrentSessionIds :
        \E f \in ConcurrentEditInputs : EditSelect(p, i, f)

\* Edit requests for session 1 that submit one fixed start, no end, and a
\* category_id that is 0, the category 1 or a category that does not exist.
Recategorize ==
    \E p \in Procs, i \in ConcurrentSessionIds, c \in {0, 1, 6} :
        EditSelect(p, i, <<c, "", Stamp("Z", 0), NoneStr>>)

\* Lines 247-252: the SELECT of the category.
EditCheckCategory ==
    \E p \in Procs :
        /\ At(p, "edit", "category")
        /\ IF get_category_by_id(categories, req[p].category_id) = {}
           THEN Answer(p, EditCategoryNotFound)
           ELSE GoOn(p, [req[p] EXCEPT !.pc = "clock"])

\* Line 278 (the assignments of lines 267-276 take effect at the commit).
EditNow == \E p \in Procs, t \in utcnow : ReadClock(p, "edit", "commit", t)

\* Lines 279-300. The flush of a row that is gone raises StaleDataError,
\* which lines 293-297 answer with its text.
EditCommit ==
    \E p \in Procs :
        LET row == Edited(req[p].row, req[p].category_id,
                          req[p].description, req[p].start_utc,
                          req[p].end_utc, req[p].now)
        IN  IF Stale(sessions, req[p].id, req[p].row, row)
            THEN Commit(p, "edit", sessions,
                        Response("edit", 500,
                                 "Failed to save session: UPDATE statement "
                                 \o "on table 'sessions' expected to update "
                                 \o "1 row(s); 0 were matched."))
            ELSE Commit(p, "edit",
                        Update(sessions, req[p].id, req[p].row, row),
                        RedirectResponse("edit"))

\* ------------------------------------------------ delete_session, by steps
\* Lines 306-312.
DeleteRead ==
    \E p \in Procs, i \in SessionIds :
        /\ Free(p)
        /\ IF i \notin DOMAIN sessions
           THEN Answer(p, SessionNotFound("delete"))
           ELSE IF is_active_session(sessions[i])
           THEN Answer(p, CannotDeleteActive)
           ELSE GoOn(p, [Idle EXCEPT !.op = "delete", !.pc = "commit",
                                     !.id = i])

\* Lines 314-317.
DeleteCommit ==
    \E p \in Procs :
        \E ss \in {DeleteRow(sessions, req[p].id)} :
            Commit(p, "delete", ss, RedirectResponse("delete"))

\* --------------------------------------------- category requests, by steps
\* db.commit() of the category handler op. The rows added to the seeded
\* table stop at MaxAdded.
CommitCategory(p, op, cs, r) ==
    /\ At(p, op, "commit")
    /\ Cardinality(DOMAIN cs) <= Len(SeedNames) + MaxAdded
    /\ categories' = cs
    /\ last' = r
    /\ req' = [req EXCEPT ![p] = Idle]
    /\ page' = NoPage
    /\ UNCHANGED <<sessions, clock>>

\* NameTaken without the constraint.
NameTaken_never(cs, name, category_id) == FALSE

\* The write gives a second row the name: the UNIQUE constraint of
\* categories.name fails, IntegrityError.
NameTaken(cs, name, category_id) ==
    \E c \in DOMAIN cs \ {category_id} : cs[c].name = name

\* add_category, lines 323-330.
AddCategorySelect(p, name) ==
    /\ Free(p)
    /\ IF strip(name) = <<>>
       THEN Answer(p, CategoryNameEmpty("add_category"))
       ELSE IF existing_name(categories, strip(name)) # {}
       THEN Answer(p, CategoryExists)
       ELSE GoOn(p, [Idle EXCEPT !.op = "add_category", !.pc = "clock",
                                 !.name = strip(name)])

AddCategoryRead ==
    \E p \in Procs : \E name \in ConcurrentNameInputs :
        AddCategorySelect(p, name)

\* An add request with the first of these names.
AddCategoryReadDeep ==
    \E p \in Procs : \E name \in {<<"Deep">>} : AddCategorySelect(p, name)

\* add_category, line 332.
AddCategoryNow ==
    \E p \in Procs, t \in utcnow : ReadClock(p, "add_category", "sort", t)

\* add_category, lines 334-335.
AddCategorySort ==
    \E p \in Procs :
        /\ At(p, "add_category", "sort")
        /\ GoOn(p, [req[p] EXCEPT !.pc = "commit",
                                  !.sort_order = next_sort(categories)])

\* add_category, lines 337-345.
AddCategoryCommit ==
    \E p \in Procs :
        LET row == NewCategory(req[p].name, req[p].sort_order, req[p].now)
        IN  IF NameTaken(categories, req[p].name, None)
            THEN CommitCategory(p, "add_category", categories,
                                InternalServerError("add_category"))
            ELSE CommitCategory(p, "add_category", Insert(categories, row),
                                RedirectResponse("add_category"))

\* edit_category, lines 355-361.
EditCategorySelect(p, category_id, name) ==
    /\ Free(p)
    /\ IF category_id \notin DOMAIN categories
       THEN Answer(p, CategoryNotFound("edit_category"))
       ELSE IF strip(name) = <<>>
       THEN Answer(p, CategoryNameEmpty("edit_category"))
       ELSE GoOn(p, [Idle EXCEPT !.op = "edit_category", !.pc = "check",
                                 !.id = category_id, !.name = strip(name),
                                 !.row = categories[category_id]])

\* An edit request for the category 1 with the second of these names, with
\* the empty name or with a name of whitespace only.
EditCategoryRead ==
    \E p \in Procs, c \in ConcurrentCategoryIdInputs :
        \E name \in {<<" ", "Focus">>, <<>>, <<" ">>} :
            EditCategorySelect(p, c, name)

\* edit_category, lines 363-369.
EditCategoryCheck ==
    \E p \in Procs :
        /\ At(p, "edit_category", "check")
        /\ IF existing_other(categories, req[p].name, req[p].id) # {}
           THEN Answer(p, CategoryNameExists)
           ELSE GoOn(p, [req[p] EXCEPT !.pc = "commit"])

\* edit_category, lines 371-374.
EditCategoryCommit ==
    \E p \in Procs :
        LET row == Renamed(req[p].row, req[p].name)
        IN  IF Dirty(req[p].row, row) # {}
                    /\ NameTaken(categories, req[p].name, req[p].id)
            THEN CommitCategory(p, "edit_category", categories,
                                InternalServerError("edit_category"))
            ELSE CommitCategory(p, "edit_category",
                                Update(categories, req[p].id, req[p].row,
                                       row),
                                RedirectResponse("edit_category"))

\* delete_category, lines 380-382.
DeleteCategorySelect(p, category_id) ==
    /\ Free(p)
    /\ IF category_id \notin DOMAIN categories
       THEN Answer(p, CategoryNotFound("delete_category"))
       ELSE GoOn(p, [Idle EXCEPT !.op = "delete_category", !.pc = "commit",
                                 !.id = category_id,
                                 !.row = categories[category_id]])

DeleteCategoryRead ==
    \E p \in Procs : \E c \in ConcurrentCategoryIdInputs :
        DeleteCategorySelect(p, c)

\* delete_category, lines 384-388.
DeleteCategoryCommit ==
    \E p \in Procs :
        \E row \in {Deactivated(req[p].row)} :
            CommitCategory(p, "delete_category",
                           Update(categories, req[p].id, req[p].row, row),
                           RedirectResponse("delete_category"))

\* ----------------------------------------------------------- pages, by steps
\* The GET request answers: the page is the body of the response.
Render(p, op, body) ==
    /\ page' = body
    /\ last' = Response(op, 200, "")
    /\ req' = [req EXCEPT ![p] = Idle]
    /\ UNCHANGED <<categories, sessions, clock>>

\* What a query of all sessions gives a request whose database session
\* holds the rows seen: a row it holds already is not read again, it keeps
\* the values it was loaded with.
LoadedRows(ss, seen) ==
    [k \in 1..Len(sessions_by_start(ss)) |->
        [id |-> sessions_by_start(ss)[k],
         row |-> IF sessions_by_start(ss)[k] \in DOMAIN seen
                 THEN seen[sessions_by_start(ss)[k]]
                 ELSE ss[sessions_by_start(ss)[k]]]]

\* The first row from row k on whose category_id is truthy, 0 when there is
\* none: the loop looks up no category for the others.
RECURSIVE NextLookup(_, _)
NextLookup(rows, k) ==
    IF k > Len(rows) THEN 0
    ELSE IF TruthyInt(rows[k].row.category_id) THEN k
    ELSE NextLookup(rows, k + 1)

\* The body after the session rows are loaded: no name found yet.
WithRows(body, rows) ==
    [body EXCEPT !.rows = rows,
                 !.names = [k \in 1..Len(rows) |-> NoCategory],
                 !.k = NextLookup(rows, 1)]

\* get_category_by_id for the row body.k (line 95, line 401): the SELECT
\* runs on the table as it is now; a Category object that the request still
\* holds is not read again and keeps the name it was loaded with. The
\* variable "cat" holds the object until the loop assigns it again.
Looked(body, cs) ==
    LET c == body.rows[body.k].row.category_id
        found == get_category_by_id(cs, c) # {}
        object == IF c \in DOMAIN body.cats THEN body.cats[c]
                  ELSE IF c \in DOMAIN body.kept THEN body.kept[c]
                  ELSE cs[c]
        next == NextLookup(body.rows, body.k + 1)
    IN  [body EXCEPT
            !.names[body.k] = IF found THEN object.name ELSE NoCategory,
            !.kept = IF found /\ next = body.k + 1
                     THEN [d \in {c} |-> object]
                     ELSE EmptyTable,
            !.k = next]

\* GET /: what the template gets, from what the request has loaded.
home_page(body) ==
    [active_session |-> body.active,
     categories |-> body.listed,
     sessions |-> [k \in 1..Len(body.rows) |->
                    session_row(body.rows[k].id, body.rows[k].row,
                                body.names[k])]]

\* GET /export.csv: the rows under the header row.
export_page(body) ==
    [k \in 1..Len(body.rows) |->
        export_line(body.rows[k].id, body.rows[k].row, body.names[k])]

\* home, line 84.
HomeActive ==
    \E p \in Procs :
        /\ Free(p)
        /\ GoOn(p, [Idle EXCEPT
                !.op = "home", !.pc = "sessions",
                !.body = [NoBody EXCEPT
                            !.active = get_active_session(sessions),
                            !.seen = [i \in get_active_session(sessions) |->
                                        sessions[i]]]])

\* home, line 87: the running session of line 84 is held in the variable
\* active_session.
HomeSessions ==
    \E p \in Procs :
        /\ At(p, "home", "sessions")
        /\ GoOn(p, [req[p] EXCEPT
                !.pc = "categories",
                !.body = WithRows(@, LoadedRows(sessions, @.seen))])

\* home, line 90, and the loop of lines 93-106 up to its first category.
HomeCategories ==
    \E p \in Procs :
        /\ At(p, "home", "categories")
        /\ LET body == [req[p].body EXCEPT
                            !.listed = list_active(categories),
                            !.cats = [c \in {d \in DOMAIN categories :
                                            categories[d].is_active = 1}
                                        |-> categories[c]]]
           IN  IF body.k = 0 THEN Render(p, "home", home_page(body))
               ELSE GoOn(p, [req[p] EXCEPT !.pc = "lookup", !.body = body])

\* home, line 95, and the loop up to the next category.
HomeLookup ==
    \E p \in Procs :
        /\ At(p, "home", "lookup")
        /\ LET body == Looked(req[p].body, categories)
           IN  IF body.k = 0 THEN Render(p, "home", home_page(body))
               ELSE GoOn(p, [req[p] EXCEPT !.body = body])

\* categories_page, line 120.
CategoriesPage ==
    \E p \in Procs :
        /\ Free(p)
        /\ \E body \in {categories_page(categories)} :
            Render(p, "categories_page", body)

\* export_csv, line 394, and the loop of lines 400-410 up to its first
\* category.
ExportSessions ==
    \E p \in Procs :
        /\ Free(p)
        /\ LET body == WithRows(NoBody, LoadedRows(sessions, EmptyTable))
           IN  IF body.k = 0
               THEN Render(p, "export_csv", export_page(body))
               ELSE GoOn(p, [Idle EXCEPT !.op = "export_csv",
                                         !.pc = "lookup", !.body = body])

\* export_csv, line 401, and the loop up to the next category.
ExportLookup ==
    \E p \in Procs :
        /\ At(p, "export_csv", "lookup")
        /\ LET body == Looked(req[p].body, categories)
           IN  IF body.k = 0
               THEN Render(p, "export_csv", export_page(body))
               ELSE GoOn(p, [req[p] EXCEPT !.body = body])

\* ------------------------------------------- requests one after the other
\* A request that arrives while no other request is in progress.
StartAlone == Quiet /\ (StartRead \/ StartReadAbsent)

StopAlone == Quiet /\ StopRead

DeleteAlone == Quiet /\ DeleteRead

\* Edit requests for every session id that submit one fixed start, no
\* category, and an end that is absent, equal to the start, or later than the
\* start within the same second.
SequentialEditInputs ==
    {<<None, "", Stamp("Z", 0), e>> :
        e \in {NoneStr, Stamp("Z", 0), Stamp("Z", 1)}}

EditAlone ==
    /\ Quiet
    /\ \E p \in Procs, i \in SessionIds :
            \E f \in SequentialEditInputs : EditSelect(p, i, f)

\* Category requests with every name and every id of the inputs.
AddCategoryAlone ==
    /\ Quiet
    /\ \E p \in Procs : \E name \in NameInputs : AddCategorySelect(p, name)

EditCategoryAlone ==
    /\ Quiet
    /\ \E p \in Procs, c \in CategoryIdInputs :
            \E name \in NameInputs : EditCategorySelect(p, c, name)

DeleteCategoryAlone ==
    /\ Quiet
    /\ \E p \in Procs, c \in CategoryIdInputs : DeleteCategorySelect(p, c)

CategoriesPageAlone == Quiet /\ CategoriesPage

\* ------------------------------------------------ calls of format_time_diff
\* The timestamps format_time_diff is called with: whole seconds from none
\* to more than a day, each also with a fractional part, with Z and
\* without, seconds 1 and 60 at +00:01 and one that is no timestamp; the
\* end may be absent or empty.
DurationStarts ==
    {Stamp(k, sec * SubPerSec + f) :
        k \in {"Z", "naive"}, sec \in {0, 1, 59, 5400, 90061}, f \in {0, 1}}
    \cup {Stamp("offset", SubPerSec), Stamp("offset", utcoffset), BadStr}

\* The tracker at any clock reading after startup, about to call
\* format_time_diff: the call has not returned yet.
InitDuration ==
    \E r \in SeedReadings :
        /\ categories = init_db(r)
        /\ sessions = EmptyTable
        /\ clock \in r[Len(SeedNames)]..MaxTime
        /\ last = Response("init", 0, "")
        /\ req = [p \in Procs |-> Idle]
        /\ page \in {[start_iso |-> s, end_iso |-> e, duration |-> NoDuration] :
                        s \in DurationStarts,
                        e \in DurationStarts \cup {NoneStr, EmptyStr}}

\* The call returns; it reads the clock when there is no end.
FormatTimeDiff ==
    \E t \in utcnow :
        /\ page.duration = NoDuration
        /\ page' = [page EXCEPT !.duration =
                        format_time_diff(page.start_iso, page.end_iso, t)]
        /\ clock' = IF TruthyStr(page.end_iso) THEN clock ELSE t
        /\ last' = Response("format_time_diff", 200, "")
        /\ UNCHANGED <<categories, sessions, req>>

\* --------------------------------------------------------- specifications
\* Start, stop, edit and delete requests in the threads of the pool.
Next ==
    \/ StartRead \/ StartNow \/ StartCommit
    \/ StopRead \/ StopNow \/ StopCommit
    \/ EditRead \/ EditNow \/ EditCommit
    \/ DeleteRead \/ DeleteCommit

Spec == Init /\ [][Next]_vars

\* Start, stop and delete requests (no edit), one after the other.
NextNoEdit ==
    \/ StartAlone \/ StartCheckCategory \/ StartNow \/ StartCommit
    \/ StopAlone \/ StopNow \/ StopCommit
    \/ DeleteAlone \/ DeleteCommit

SpecNoEdit == Init /\ [][NextNoEdit]_vars

\* Start, stop, edit and delete requests, one after the other.
NextLedger ==
    \/ StartAlone \/ StartCheckCategory \/ StartNow \/ StartCommit
    \/ StopAlone \/ StopNow \/ StopCommit
    \/ EditAlone \/ EditNow \/ EditCommit
    \/ DeleteAlone \/ DeleteCommit

SpecLedger == Init /\ [][NextLedger]_vars

\* Category requests, one after the other, with the categories page.
NextCategories ==
    \/ AddCategoryAlone \/ AddCategoryNow \/ AddCategorySort
    \/ AddCategoryCommit
    \/ EditCategoryAlone \/ EditCategoryCheck \/ EditCategoryCommit
    \/ DeleteCategoryAlone \/ DeleteCategoryCommit
    \/ CategoriesPageAlone

SpecCategories == Init /\ [][NextCategories]_vars

\* Category requests in the threads of the pool.
NextConcCategories ==
    \/ AddCategoryRead \/ AddCategoryNow \/ AddCategorySort
    \/ AddCategoryCommit
    \/ EditCategoryRead \/ EditCategoryCheck \/ EditCategoryCommit
    \/ DeleteCategoryRead \/ DeleteCategoryCommit

SpecConcCategories == Init /\ [][NextConcCategories]_vars

\* Start requests with category_id 0, with a category and with a category
\* that does not exist, and stop requests, while the category is
\* deactivated, in the threads of the pool.
NextTracker ==
    \/ StartReadZero \/ StartReadOne \/ StartReadAbsent
    \/ StartCheckCategory \/ StartNow \/ StartCommit
    \/ StopRead \/ StopNow \/ StopCommit
    \/ DeleteCategoryRead \/ DeleteCategoryCommit

SpecTracker == Init /\ [][NextTracker]_vars

\* Edit requests that change the category of a session, while the category
\* is deactivated, in the threads of the pool.
NextRecategorize ==
    \/ StartRead \/ StartNow \/ StartCommit
    \/ Recategorize \/ EditCheckCategory \/ EditNow \/ EditCommit
    \/ DeleteCategoryRead \/ DeleteCategoryCommit

SpecRecategorize == Init /\ [][NextRecategorize]_vars

\* The home page, beside start and stop requests and the deactivation of
\* the category, in the threads of the pool.
NextPages ==
    \/ StartReadOne \/ StartCheckCategory \/ StartNow \/ StartCommit
    \/ StopRead \/ StopNow \/ StopCommit
    \/ DeleteCategoryRead \/ DeleteCategoryCommit
    \/ HomeActive \/ HomeSessions \/ HomeCategories \/ HomeLookup

SpecPages == Init /\ [][NextPages]_vars

\* The CSV export, beside start and stop requests and the deactivation of
\* the category, in the threads of the pool.
NextExport ==
    \/ StartReadOne \/ StartCheckCategory \/ StartNow \/ StartCommit
    \/ StopRead \/ StopNow \/ StopCommit
    \/ DeleteCategoryRead \/ DeleteCategoryCommit
    \/ ExportSessions \/ ExportLookup

SpecExport == Init /\ [][NextExport]_vars

\* Every category request, beside start requests with a category, in the
\* threads of the pool.
NextStore ==
    \/ StartReadOne \/ StartCheckCategory \/ StartNow \/ StartCommit
    \/ AddCategoryReadDeep \/ AddCategoryNow \/ AddCategorySort
    \/ AddCategoryCommit
    \/ EditCategoryRead \/ EditCategoryCheck \/ EditCategoryCommit
    \/ DeleteCategoryRead \/ DeleteCategoryCommit

SpecStore == Init /\ [][NextStore]_vars

\* Calls of format_time_diff.
NextDuration == FormatTimeDiff

SpecDuration == InitDuration /\ [][NextDuration]_vars

\* ----------------------------------------------------------------- claims
\* A claim about what one request does is stated for a request that is
\* served while no other request is in progress (Quiet), on every table the
\* requests before it can have left, whether they overlapped or not.

\* The sessions that are running, and the instant a request would read.
Running == {i \in DOMAIN sessions : sessions[i].end_utc.kind = "None"}

Closed == DOMAIN sessions \ Running

NowStamp(t) == [kind |-> "Z", wall |-> t]

ActiveCategories ==
    {c \in DOMAIN categories : categories[c].is_active = 1}

\* C1: from an empty ledger, after any sequence of start, stop and delete
\* requests (no edit), served one after the other, at most one session has
\* end_utc = null.
C1_AtMostOneRunning == Cardinality(Running) <= 1

\* A session runs beside a closed one: start, stop and start were served.
C1_Witness == Cardinality(Running) = 1 /\ Cardinality(Closed) = 1

\* C2: when two start requests run concurrently, the read of the running
\* session and the insert being separate steps, no interleaving leaves two
\* sessions with end_utc = null.
C2_RaceClosed ==
    \A i \in DOMAIN sessions, j \in DOMAIN sessions :
        (sessions[i].end_utc = NoneStr /\ sessions[j].end_utc = NoneStr)
            => i = j

\* C3: every session whose stored end_utc is non-null has it strictly later
\* than its stored start_utc.
C3_EndAfterStart ==
    \A i \in Closed : sessions[i].end_utc.wall > sessions[i].start_utc.wall

\* C4: a start request fails as a conflict (status 400, "already running"),
\* inserting and changing nothing, whenever a session is running; with none
\* running and the category absent or active it succeeds and inserts
\* exactly one session, running, whose start_utc, created_utc and
\* updated_utc are the instant of the request.
\* The request is served while no other request is in progress.
C4_StartConflictOrInsert ==
    Quiet =>
    \A c \in CategoryInputs, d \in Descriptions, t \in utcnow :
        \A out \in start_session(sessions, categories, c, d, t) :
            /\ Running # {} =>
                /\ out.response.status = 400
                /\ out.response.detail =
                       "A session is already running. Stop it first."
                /\ out.sessions = sessions
            /\ (Running = {} /\ (c = None \/ c \in ActiveCategories)) =>
                /\ out.response.status = 303
                /\ \E n \in DOMAIN out.sessions \ DOMAIN sessions :
                    /\ DOMAIN out.sessions = DOMAIN sessions \cup {n}
                    /\ out.sessions[n].end_utc.kind = "None"
                    /\ out.sessions[n].start_utc = NowStamp(t)
                    /\ out.sessions[n].created_utc = NowStamp(t)
                    /\ out.sessions[n].updated_utc = NowStamp(t)
                /\ \A i \in DOMAIN sessions : out.sessions[i] = sessions[i]

\* A start request was refused while a session ran beside a closed one.
C4_Witness ==
    /\ last.op = "start" /\ last.status = 400
    /\ Running # {} /\ Closed # {}

\* C5 as the specification states it: a stop request with no session
\* running fails as "not found" (status 404) and changes no session.
\* The request is served while no other request is in progress.
C5_StopNotFound ==
    (Quiet /\ Running = {}) =>
        \A t \in utcnow :
            \A out \in stop_session(sessions, t) :
                out.response.status = 404 /\ out.sessions = sessions

\* C5, amended: a stop request with no session running fails with status
\* 400, "No active session to stop.", and changes no session.
\* The request is served while no other request is in progress.
C5_StopBadRequest ==
    (Quiet /\ Running = {}) =>
        \A t \in utcnow :
            \A out \in stop_session(sessions, t) :
                /\ out.response.status = 400
                /\ out.response.detail = "No active session to stop."
                /\ out.sessions = sessions

\* A stop request was refused with closed sessions in the ledger.
C5_Witness ==
    /\ last.op = "stop" /\ last.status = 400
    /\ Running = {} /\ Closed # {}

\* C6: a stop request that succeeds sets end_utc and updated_utc of a
\* session that was running to the instant of the request, and leaves its
\* other fields and every other session as they were.
\* The request is served while no other request is in progress.
C6_StopFrame ==
    Quiet =>
    \A t \in utcnow :
        \A out \in stop_session(sessions, t) :
            out.response.status = 303 =>
                /\ DOMAIN out.sessions = DOMAIN sessions
                /\ \E a \in Running :
                    /\ out.sessions[a].end_utc = NowStamp(t)
                    /\ out.sessions[a].updated_utc = NowStamp(t)
                    /\ out.sessions[a].category_id = sessions[a].category_id
                    /\ out.sessions[a].description = sessions[a].description
                    /\ out.sessions[a].start_utc = sessions[a].start_utc
                    /\ out.sessions[a].created_utc = sessions[a].created_utc
                    /\ \A i \in DOMAIN sessions \ {a} :
                            out.sessions[i] = sessions[i]

\* A stop request succeeded with another session in the ledger.
C6_Witness ==
    /\ last.op = "stop" /\ last.status = 303
    /\ Cardinality(DOMAIN sessions) >= 2
    /\ \E i \in Closed : sessions[i].end_utc = sessions[i].updated_utc

\* What the specification means by a parseable timestamp and its instant:
\* a timestamp without offset is UTC, one at +00:01 is a minute ahead of
\* UTC.
IsTimestamp(s) == s.kind \in {"naive", "Z", "offset"}

Instant(s) == IF s.kind = "offset" THEN s.wall - 60 * SubPerSec ELSE s.wall

\* C7: an edit request for an existing session whose two timestamps parse,
\* the end earlier than or equal to the start, fails with status 400 and
\* changes no session.
\* The request is served while no other request is in progress.
C7_EditRejectsEndNotAfterStart ==
    Quiet =>
    \A i \in DOMAIN sessions, f \in EditInputs, t \in utcnow :
        (/\ IsTimestamp(f[3]) /\ IsTimestamp(f[4])
         /\ Instant(f[4]) <= Instant(f[3])) =>
            \A out \in edit_session(sessions, categories, i, f[1], f[2],
                                    f[3], f[4], t) :
                out.response.status = 400 /\ out.sessions = sessions

\* An edit request was refused because its end is not after its start.
C7_Witness ==
    /\ last.op = "edit" /\ last.status = 400
    /\ last.detail = "End time must be after start time."
    /\ sessions # EmptyTable

\* C8: an edit request for an existing session succeeds whenever start_utc
\* parses, end_utc is absent or parses to a later instant, and category_id
\* is absent or active, whichever form (with Z or without) each timestamp
\* has.
\* The request is served while no other request is in progress.
C8_EditAcceptsAnyForm ==
    Quiet =>
    \A i \in DOMAIN sessions, f \in EditInputs, t \in utcnow :
        (/\ IsTimestamp(f[3])
         /\ \/ f[4].kind \in {"None", "empty"}
            \/ IsTimestamp(f[4]) /\ Instant(f[4]) > Instant(f[3])
         /\ f[1] = None \/ f[1] \in ActiveCategories) =>
            \A out \in edit_session(sessions, categories, i, f[1], f[2],
                                    f[3], f[4], t) :
                out.response.status = 303

\* The stored form of a submitted timestamp: its wall time cut to the whole
\* second, with Z; null when none was submitted.
Stored(s) ==
    IF s.kind \in {"None", "empty"} THEN [kind |-> "None", wall |-> 0]
    ELSE [kind |-> "Z", wall |-> s.wall - (s.wall % SubPerSec)]

\* C9 as the specification states it: after an edit request that succeeds,
\* the session holds the submitted category_id and description and the
\* normalized start_utc and end_utc (null when no end was submitted), its
\* created_utc is unchanged, its updated_utc is later than before, and every
\* other session is unchanged.
\* The request is served while no other request is in progress.
C9_EditRoundTrip ==
    Quiet =>
    \A i \in SessionIds, f \in EditInputs, t \in utcnow :
        \A out \in edit_session(sessions, categories, i, f[1], f[2], f[3],
                                f[4], t) :
            out.response.status = 303 =>
                /\ i \in DOMAIN sessions
                /\ DOMAIN out.sessions = DOMAIN sessions
                /\ out.sessions[i].category_id = f[1]
                /\ out.sessions[i].description = f[2]
                /\ out.sessions[i].start_utc = Stored(f[3])
                /\ out.sessions[i].end_utc = Stored(f[4])
                /\ out.sessions[i].created_utc = sessions[i].created_utc
                /\ out.sessions[i].updated_utc.wall
                       > sessions[i].updated_utc.wall
                /\ \A j \in DOMAIN sessions \ {i} :
                        out.sessions[j] = sessions[j]

\* C9, amended: after an edit request that succeeds, the session holds the
\* submitted category_id and description and the normalized start_utc and
\* end_utc (null when no end was submitted), its created_utc is unchanged,
\* its updated_utc is not earlier than before, and later than before
\* whenever the clock reads later for the edit than the value updated_utc
\* had, and every other session is unchanged.
\* The request is served while no other request is in progress.
C9_EditRoundTripNow ==
    Quiet =>
    \A i \in SessionIds, f \in EditInputs, t \in utcnow :
        \A out \in edit_session(sessions, categories, i, f[1], f[2], f[3],
                                f[4], t) :
            out.response.status = 303 =>
                /\ i \in DOMAIN sessions
                /\ DOMAIN out.sessions = DOMAIN sessions
                /\ out.sessions[i].category_id = f[1]
                /\ out.sessions[i].description = f[2]
                /\ out.sessions[i].start_utc = Stored(f[3])
                /\ out.sessions[i].end_utc = Stored(f[4])
                /\ out.sessions[i].created_utc = sessions[i].created_utc
                /\ out.sessions[i].updated_utc.wall
                       >= sessions[i].updated_utc.wall
                /\ t > sessions[i].updated_utc.wall =>
                        out.sessions[i].updated_utc.wall
                            > sessions[i].updated_utc.wall
                /\ \A j \in DOMAIN sessions \ {i} :
                        out.sessions[j] = sessions[j]

\* An edit request succeeded: it took the end from a session and moved its
\* start to the whole second, at a reading later than the one the session
\* was started at, beside another session.
C9_Witness ==
    /\ last.op = "edit" /\ last.status = 303
    /\ Cardinality(DOMAIN sessions) = 2
    /\ \E i \in Running :
        /\ sessions[i].start_utc = Stamp("Z", 0)
        /\ sessions[i].start_utc # sessions[i].created_utc
        /\ sessions[i].updated_utc.wall = clock
        /\ sessions[i].created_utc.wall < clock

\* C10: a delete request for a running session fails as a conflict (status
\* 400, "cannot delete the active session") and changes nothing, and no
\* step of any execution removes a session whose end_utc is null.
\* Each request is served while no other request is in progress; what is
\* said of the table, the pages or the steps holds of every execution.
C10_RunningNotDeleted ==
    /\ [](Quiet => \A i \in Running :
            \A out \in delete_session(sessions, i) :
                /\ out.response.status = 400
                /\ out.response.detail =
                       "Cannot delete the active session. Stop it first."
                /\ out.sessions = sessions)
    /\ [][\A i \in DOMAIN sessions \ DOMAIN sessions' : i \in Closed]_vars

\* Every outcome of every request that can be made on the sessions table ss
\* when the clock reads t.
OutcomesOn(ss, t) ==
    UNION ({start_session(ss, categories, c, d, t) :
                c \in CategoryInputs, d \in Descriptions}
           \cup {stop_session(ss, t)}
           \cup {edit_session(ss, categories, i, f[1], f[2], f[3], f[4], t) :
                    i \in SessionIds, f \in EditInputs}
           \cup {delete_session(ss, i) : i \in SessionIds})

\* C11: a delete request for a closed session removes that session and
\* changes no other; after it the id stays absent whatever request follows,
\* and edit and delete requests for it are answered 404; a delete request
\* for an id that is not in the ledger is answered 404 and changes nothing.
\* Each request is served while no other request is in progress.
C11_DeletedForGood ==
    Quiet =>
    /\ \A i \in Closed :
        \A out \in delete_session(sessions, i) :
            /\ out.response.status = 303
            /\ DOMAIN out.sessions = DOMAIN sessions \ {i}
            /\ \A j \in DOMAIN out.sessions : out.sessions[j] = sessions[j]
            /\ \A o \in delete_session(out.sessions, i) :
                    o.response.status = 404
            /\ \A f \in EditInputs :
                \A o \in edit_session(out.sessions, categories, i, f[1],
                                      f[2], f[3], f[4], clock) :
                    o.response.status = 404
            /\ \A t \in utcnow :
                \A o \in OutcomesOn(out.sessions, t) :
                    i \notin DOMAIN o.sessions
    /\ \A i \in SessionIds \ DOMAIN sessions :
        \A out \in delete_session(sessions, i) :
            out.response.status = 404 /\ out.sessions = sessions

\* C12: an edit request without end_utc for a closed session succeeds while
\* another session is running, and leaves both running.
\* The request is served while no other request is in progress.
C12_EditReopensBesideRunning ==
    Quiet =>
    \A i \in Closed, f \in EditInputs, t \in utcnow :
        (/\ Running # {}
         /\ IsTimestamp(f[3]) /\ f[4].kind \in {"None", "empty"}
         /\ f[1] = None \/ f[1] \in ActiveCategories) =>
            \A out \in edit_session(sessions, categories, i, f[1], f[2],
                                    f[3], f[4], t) :
                /\ out.response.status = 303
                /\ out.sessions[i].end_utc.kind = "None"
                /\ \A r \in Running : out.sessions[r].end_utc.kind = "None"

\* Two sessions run: start, stop, start and an edit without end_utc of the
\* closed session were served.
C12_Witness ==
    /\ last.op = "edit" /\ last.status = 303
    /\ Cardinality(Running) = 2

\* The ids a sequence lists.
Listed(seq) == {seq[k] : k \in DOMAIN seq}

\* C13: a deactivate request for an existing category keeps the row and its
\* name and takes the category out of the list of active ones, and every
\* session with that category_id is shown on the home page and in the CSV
\* export with the category's name, also on the pages served later.
\* Each request is served while no other request is in progress; what is
\* said of the table, the pages or the steps holds of every execution.
C13_DeactivatedNameShown ==
    /\ Quiet => \A c \in DOMAIN categories :
        \A out \in delete_category(categories, c) :
            /\ out.response.status = 303
            /\ c \in DOMAIN out.categories
            /\ out.categories[c].name = categories[c].name
            /\ c \notin Listed(list_active(out.categories))
            /\ \A i \in DOMAIN sessions :
                sessions[i].category_id = c =>
                    /\ sessions_data(sessions, out.categories, i).category_name
                            = categories[c].name
                    /\ export_row(sessions, out.categories, i)[2]
                            = categories[c].name
    /\ last.op = "home" =>
        \A k \in DOMAIN page.sessions :
            page.sessions[k].category_id \in DOMAIN categories =>
                page.sessions[k].category_name
                    = categories[page.sessions[k].category_id].name
    /\ last.op = "export_csv" =>
        \A k \in DOMAIN page :
            sessions[page[k][1]].category_id \in DOMAIN categories =>
                page[k][2] = categories[sessions[page[k][1]].category_id].name

\* A name without the whitespace around it (the names submitted have none
\* inside).
Trimmed(name) == SelectSeq(name, LAMBDA ch : ch \notin {" ", "\t"})

NameOwners(name) ==
    {c \in DOMAIN categories : categories[c].name = Trimmed(name)}

\* C14: an add request whose trimmed name is the name of a category, active
\* or not, is answered 400 "Category already exists."; one whose trimmed
\* name is empty is answered 400 "Category name cannot be empty."; neither
\* adds or changes a category.
\* The request is served while no other request is in progress.
C14_AddRejected ==
    Quiet =>
    \A name \in NameInputs, t \in utcnow :
        \A out \in add_category(categories, name, t) :
            /\ Trimmed(name) = <<>> =>
                /\ out.response.status = 400
                /\ out.response.detail = "Category name cannot be empty."
                /\ out.categories = categories
            /\ NameOwners(name) # {} =>
                /\ out.response.status = 400
                /\ out.response.detail = "Category already exists."
                /\ out.categories = categories

\* An add request with the name of a deactivated category was rejected.
C14_Witness ==
    /\ last.op = "add_category" /\ last.status = 400
    /\ last.detail = "Category already exists."
    /\ \E c \in DOMAIN categories :
        categories[c].is_active = 0 /\ categories[c].name \in NameInputs

\* C15: no two categories, active or not, have the same name, and no
\* category has the empty name.
C15_NamesUnique ==
    /\ \A c, d \in DOMAIN categories :
        c # d => categories[c].name # categories[d].name
    /\ \A c \in DOMAIN categories : categories[c].name # <<>>

\* Categories were added, one was renamed and one is inactive, and a write
\* was refused for the name it would have given a second row.
C15_Witness ==
    /\ last.status = 500
    /\ Len(SeedNames) + 1 \in DOMAIN categories
    /\ categories[1].name # <<SeedNames[1]>>
    /\ \E c \in DOMAIN categories : categories[c].is_active = 0

SortOrders(cs) == {cs[c].sort_order : c \in DOMAIN cs}

\* The table after add requests for these names, one after the other.
RECURSIVE AddedAll(_, _)
AddedAll(cs, names) ==
    IF names = <<>> THEN cs
    ELSE AddedAll((CHOOSE o \in add_category(cs, Head(names), 1) :
                        TRUE).categories,
                  Tail(names))

\* C16: a successful add request gives the new category the greatest
\* sort_order of all categories, active or not, plus 10; added to an empty
\* table, categories get 10, 20, 30; no two categories have the same
\* sort_order.
\* Each request is served while no other request is in progress; what is
\* said of the table, the pages or the steps holds of every execution.
C16_SortOrder ==
    /\ Quiet => \A name \in NameInputs, t \in utcnow :
        \A out \in add_category(categories, name, t) :
            out.response.status = 303 =>
                \E c \in DOMAIN out.categories \ DOMAIN categories :
                    /\ DOMAIN out.categories = DOMAIN categories \cup {c}
                    /\ \A s \in SortOrders(categories) :
                            s + 10 <= out.categories[c].sort_order
                    /\ out.categories[c].sort_order - 10
                            \in SortOrders(categories)
    /\ LET cs == AddedAll(EmptyTable, <<<<"Deep">>, <<"Focus">>, <<"Coding">>>>)
       IN  [c \in DOMAIN cs |-> cs[c].sort_order]
                = [c \in 1..3 |-> 10 * c]
    /\ \A c, d \in DOMAIN categories :
        c # d => categories[c].sort_order # categories[d].sort_order

\* A category was added after the category added before it was deactivated.
C16_Witness ==
    /\ last.op = "add_category" /\ last.status = 303
    /\ Len(SeedNames) + 2 \in DOMAIN categories
    /\ categories[Len(SeedNames) + 1].is_active = 0
    /\ categories[Len(SeedNames) + 2].sort_order = 10 * (Len(SeedNames) + 2)

\* C17: an edit request for a category id that does not exist is answered
\* 404, one whose trimmed name belongs to a category with another id is
\* answered 400, and neither changes anything; one with the category's own
\* name succeeds; a successful one changes the name of that category and
\* nothing else.
\* The request is served while no other request is in progress.
C17_EditCategory ==
    Quiet =>
    \A c \in CategoryIdInputs, name \in NameInputs :
        \A out \in edit_category(categories, c, name) :
            /\ c \notin DOMAIN categories =>
                out.response.status = 404 /\ out.categories = categories
            /\ (c \in DOMAIN categories /\ Trimmed(name) # <<>>
                    /\ NameOwners(name) \ {c} # {}) =>
                /\ out.response.status = 400
                /\ out.response.detail = "Category name already exists."
                /\ out.categories = categories
            /\ (c \in DOMAIN categories
                    /\ categories[c].name = Trimmed(name)) =>
                out.response.status = 303
            /\ out.response.status = 303 =>
                /\ DOMAIN out.categories = DOMAIN categories
                /\ out.categories[c]
                        = [categories[c] EXCEPT !.name = Trimmed(name)]
                /\ \A d \in DOMAIN categories \ {c} :
                        out.categories[d] = categories[d]

\* A category was renamed, and a request can rename it to the name it has.
C17_Witness ==
    /\ last.op = "edit_category" /\ last.status = 303
    /\ categories[1].name # <<SeedNames[1]>>
    /\ \E name \in NameInputs : Trimmed(name) = categories[1].name

\* C18: a start or an edit request with a category_id that is not the id of
\* an active category (no such row, or an inactive one) changes no session,
\* and is answered 404 when nothing else is wrong with it (no session runs
\* at the start request; the edited session exists and the times are
\* valid).
\* The request is served while no other request is in progress.
C18_InactiveCategoryRejected ==
    Quiet =>
    \A c \in CategoryInputs \ ({None} \cup ActiveCategories), t \in utcnow :
        /\ \A d \in Descriptions :
            \A out \in start_session(sessions, categories, c, d, t) :
                /\ out.sessions = sessions
                /\ Running = {} => out.response.status = 404
        /\ \A i \in DOMAIN sessions, d \in Descriptions :
            \A e \in {NoneStr, Stamp("Z", SubPerSec)} :
                \A out \in edit_session(sessions, categories, i, c, d,
                                        Stamp("Z", 0), e, t) :
                    out.sessions = sessions /\ out.response.status = 404

\* A number of at least two decimal digits, and HH:MM:SS for s seconds.
RECURSIVE Decimal(_)
Decimal(n) ==
    IF n < 10 THEN <<Digit[n + 1]>>
    ELSE Decimal(n \div 10) \o <<Digit[(n % 10) + 1]>>

TwoDigits(n) == IF n < 10 THEN <<"0">> \o Decimal(n) ELSE Decimal(n)

HMS(s) ==
    TwoDigits(s \div 3600) \o <<":">> \o TwoDigits((s % 3600) \div 60)
    \o <<":">> \o TwoDigits(s % 60)

Returned == last.op = "format_time_diff"

\* C19: format_time_diff called without end for a start in the stored form
\* (with Z) that is not in the future returns the time from the start to the
\* clock reading, as HH:MM:SS.
C19_DurationUntilNow ==
    (/\ Returned
     /\ page.start_iso.kind = "Z" /\ page.end_iso = NoneStr
     /\ page.start_iso.wall <= clock) =>
        page.duration = HMS((clock - page.start_iso.wall) \div SubPerSec)

\* C20: format_time_diff called with a start and an end that both parse
\* returns HH:MM:SS for the whole seconds from the start to the end, with no
\* negative field; called with a start that does not parse it returns
\* 00:00:00; it writes nothing to the tables.
C20_DurationFormat ==
    /\ (Returned /\ IsTimestamp(page.start_iso)
            /\ IsTimestamp(page.end_iso)) =>
        /\ \A k \in DOMAIN page.duration : page.duration[k] # "-"
        /\ Instant(page.start_iso) <= Instant(page.end_iso) =>
            page.duration
                = HMS((Instant(page.end_iso) - Instant(page.start_iso))
                        \div SubPerSec)
    /\ (Returned /\ ~IsTimestamp(page.start_iso)) =>
        page.duration = HMS(0)
    /\ Returned =>
        categories \in {init_db(r) : r \in SeedReadings}
            /\ sessions = EmptyTable

\* The stored form: with Z, no offset, no fractional second.
PersistedFormat(s) == s.kind = "Z" /\ s.wall % SubPerSec = 0

\* C21: every start_utc, and every end_utc that is not null, stored by a
\* start, stop or edit request is in the stored form: whole seconds, no
\* offset, a trailing Z.
C21_PersistedFormat ==
    \A i \in DOMAIN sessions :
        /\ PersistedFormat(sessions[i].start_utc)
        /\ sessions[i].end_utc.kind # "None" =>
                PersistedFormat(sessions[i].end_utc)

\* C22: after a stop request that succeeds no session has end_utc null, and
\* a start request without category made next succeeds.
\* Each request is served while no other request is in progress.
C22_StopLeavesNoneRunning ==
    Quiet =>
    \A t \in utcnow :
        \A out \in stop_session(sessions, t) :
            out.response.status = 303 =>
                /\ \A i \in DOMAIN out.sessions :
                        out.sessions[i].end_utc.kind # "None"
                /\ \A d \in Descriptions, u \in t..MaxTime :
                    \A o \in start_session(out.sessions, categories, None,
                                           d, u) :
                        o.response.status = 303

\* C24: the category_id of every session is null or the id of a row of the
\* categories table, active or not, whatever integer the start and edit
\* requests submitted, 0 included.
C24_CategoryReferenceExists ==
    \A i \in DOMAIN sessions :
        sessions[i].category_id = None
            \/ sessions[i].category_id \in DOMAIN categories

InactiveCategories == DOMAIN categories \ ActiveCategories

\* A deactivate request for an inactive category succeeds and changes
\* nothing, and an add request with the name the category has is refused.
InactiveStaysReserved ==
    \A c \in InactiveCategories :
        /\ \A out \in delete_category(categories, c) :
            out.response.status = 303 /\ out.categories = categories
        /\ \A name \in NameInputs, t \in utcnow :
            Trimmed(name) = categories[c].name =>
                \A out \in add_category(categories, name, t) :
                    /\ out.response.status = 400
                    /\ out.categories = categories

\* No step removes a category or makes an inactive category active.
CategoriesStep ==
    /\ DOMAIN categories \subseteq DOMAIN categories'
    /\ \A c \in InactiveCategories : categories'[c].is_active = 0

\* C23: whatever category and session requests are served, no category id
\* leaves the table and no inactive category becomes active again; a
\* deactivate request for an inactive category succeeds and changes
\* nothing; an add request with the name of an inactive category is
\* refused.
\* Each request is served while no other request is in progress; what is
\* said of the table, the pages or the steps holds of every execution.
C23_CategoriesMonotone ==
    [](Quiet => InactiveStaysReserved) /\ [][CategoriesStep]_vars

\* A category that a session refers to is inactive and was renamed, and a
\* category was added.
C23_Witness ==
    /\ categories[1].is_active = 0
    /\ categories[1].name # <<SeedNames[1]>>
    /\ \E i \in DOMAIN sessions : sessions[i].category_id = 1
    /\ Len(SeedNames) + 1 \in DOMAIN categories

====
